---- MODULE Spec2Model ----
(***************************************************************************)
(* Arithmetic over GF(4) and over the polynomial ring built on a Galois    *)
(* field: canonical coefficient vectors, add / sub / mul, Euclidean        *)
(* division (div_mod) and the extended Euclidean algorithm (xgcd, invert). *)
(*                                                                         *)
(* A polynomial is its coefficient vector (a non-empty sequence, index 1   *)
(* here = index 0 in the source).  Option<X> is a tuple: None == <<>>,     *)
(* Some(x) == <<x>>.  The polynomial code is generic over the GaloisField  *)
(* trait; the state variable T names the instantiation in use.             *)
(***************************************************************************)
EXTENDS Integers, Sequences, FiniteSets, TLC

VARIABLES
    T,             \* the GaloisField instantiation the caller uses
    op,            \* the operation called last ("none" before the first call)
    pc,            \* "ready" between calls, else the position inside a call
    self,          \* first polynomial held by the caller (the receiver)
    other,         \* second polynomial held by the caller (the argument)
    input,         \* the vector handed to new_from_coefficients
    ret,           \* the value the last call returned
    dm,            \* locals of the running div_mod: other, current, result
    xg             \* locals of the running xgcd: r_last, r_current, t_last, t_current

vars == <<T, op, pc, self, other, input, ret, dm, xg>>

\* ------------------------------------------------------------------ bounds
\* Longest coefficient vector a caller hands in (the second operand of a
\* binary operation is at most one shorter).
MaxLen == 3

\* ------------------------------------------------------------ Option<X>
None == <<>>

Some(x) == <<x>>

is_some(o) == o # <<>>

unwrap(o) == o[1]

\* -------------------------------------------------------------- GF4
GF4 == {"Zero", "One", "Alpha", "AlphaPlusOne"}

to_number(x) ==
    CASE x = "Zero" -> 0
      [] x = "One" -> 1
      [] x = "Alpha" -> 2
      [] x = "AlphaPlusOne" -> 3

ADDITION ==
    << <<"Zero", "One", "Alpha", "AlphaPlusOne">>,
       <<"One", "Zero", "AlphaPlusOne", "Alpha">>,
       <<"Alpha", "AlphaPlusOne", "Zero", "One">>,
       <<"AlphaPlusOne", "Alpha", "One", "Zero">> >>

MULTIPLICATION ==
    << <<"Zero", "Zero", "Zero", "Zero">>,
       <<"Zero", "One", "Alpha", "AlphaPlusOne">>,
       <<"Zero", "Alpha", "AlphaPlusOne", "One">>,
       <<"Zero", "AlphaPlusOne", "One", "Alpha">> >>

DIVISION ==
    << <<"Zero", "Zero", "Zero">>,
       <<"One", "AlphaPlusOne", "Alpha">>,
       <<"Alpha", "One", "AlphaPlusOne">>,
       <<"AlphaPlusOne", "Alpha", "One">> >>

GF4_is_zero(x) == x = "Zero"

GF4_is_one(x) == x = "One"

\* Rust indexes the tables from 0, TLA+ tuples from 1.
GF4_add(a, b) == ADDITION[to_number(a) + 1][to_number(b) + 1]

GF4_sub(a, b) == GF4_add(a, b)

GF4_mul(a, b) == MULTIPLICATION[to_number(a) + 1][to_number(b) + 1]

\* Mutant: the quotient is read from the multiplication table (the divisor is
\* not inverted).
GF4_div_as_mul(a, b) ==
    IF GF4_is_zero(b)
    THEN None
    ELSE Some(MULTIPLICATION[to_number(a) + 1][to_number(b) + 1])

GF4_div(a, b) ==
    IF GF4_is_zero(b)
    THEN None
    ELSE Some(DIVISION[to_number(a) + 1][(to_number(b) - 1) + 1])

\* -------------------------------------------------------------- GF3
\* A second implementor of the GaloisField trait: the integers modulo 3, a
\* field of characteristic 3 (sub is not add).  It is an input to the generic
\* polynomial code, which is written against the trait alone.
GF3 == {0, 1, 2}

GF3_add(a, b) == (a + b) % 3

GF3_sub(a, b) == ((a - b) + 3) % 3

GF3_mul(a, b) == (a * b) % 3

\* 1 and 2 are their own inverses modulo 3, so a / b = a * b for b # 0.
GF3_div(a, b) ==
    IF b = 0 THEN None ELSE Some(GF3_mul(a, b))

\* ------------------------------------------------- trait GaloisField
Elements(F) == IF F = "GF4" THEN GF4 ELSE GF3

generate_zero(F) == IF F = "GF4" THEN "Zero" ELSE 0

generate_one(F) == IF F = "GF4" THEN "One" ELSE 1

is_zero(F, x) == IF F = "GF4" THEN GF4_is_zero(x) ELSE x = 0

is_one(F, x) == IF F = "GF4" THEN GF4_is_one(x) ELSE x = 1

add(F, a, b) == IF F = "GF4" THEN GF4_add(a, b) ELSE GF3_add(a, b)

sub(F, a, b) == IF F = "GF4" THEN GF4_sub(a, b) ELSE GF3_sub(a, b)

mul(F, a, b) == IF F = "GF4" THEN GF4_mul(a, b) ELSE GF3_mul(a, b)

div(F, a, b) == IF F = "GF4" THEN GF4_div(a, b) ELSE GF3_div(a, b)

\* ------------------------------------------------------- Polynomial<T>
RECURSIVE trailing_zero_count(_, _, _)
\* The loop of remove_trailing_zeros: walk v from the back, counting zeros
\* until the first non-zero item (n = items of v not yet visited).
trailing_zero_count(F, v, n) ==
    IF n = 0 THEN 0
    ELSE IF is_zero(F, v[n]) THEN 1 + trailing_zero_count(F, v, n - 1)
    ELSE 0

\* Mutant: strips at most one trailing zero (an if where the loop belongs).
remove_trailing_zeros_once(F, v) ==
    LET count == IF Len(v) > 0 /\ is_zero(F, v[Len(v)]) THEN 1 ELSE 0
        truncated == SubSeq(v, 1, Len(v) - count)
    IN  IF truncated = <<>> THEN <<generate_zero(F)>> ELSE truncated

remove_trailing_zeros(F, v) ==
    LET count == trailing_zero_count(F, v, Len(v))
        new_length == IF Len(v) >= count THEN Len(v) - count ELSE 0
        truncated == SubSeq(v, 1, new_length)
    IN  IF truncated = <<>> THEN <<generate_zero(F)>> ELSE truncated

shrink_to_degree(F, coefficients) == remove_trailing_zeros(F, coefficients)

Polynomial_new(F) == <<generate_zero(F)>>

new_from_coefficients(F, coefficients) ==
    IF coefficients = <<>>
    THEN Polynomial_new(F)
    ELSE shrink_to_degree(F, coefficients)

degree(p) == Len(p) - 1

Polynomial_is_zero(F, p) == degree(p) = 0 /\ is_zero(F, p[1])

Polynomial_is_one(F, p) == degree(p) = 0 /\ is_one(F, p[1])

get_coefficient(p, i) == IF i + 1 <= Len(p) THEN Some(p[i + 1]) ELSE None

\* (longer, shorter) as add and sub pick them.
longer_of(p, q) == IF degree(p) >= degree(q) THEN p ELSE q

shorter_of(p, q) == IF degree(p) >= degree(q) THEN q ELSE p

\* Mutant: self is taken as the longer operand whatever the degrees are, so
\* the high coefficients of a longer other are dropped.
Polynomial_add_self_longer(F, p, q) ==
    LET coefficients ==
            [i \in 1..Len(p) |->
                IF i <= Len(q) THEN add(F, p[i], q[i]) ELSE p[i]]
    IN  new_from_coefficients(F, coefficients)

Polynomial_add(F, p, q) ==
    LET longer == longer_of(p, q)
        shorter == shorter_of(p, q)
        coefficients ==
            [i \in 1..Len(longer) |->
                IF i <= Len(shorter) THEN add(F, longer[i], shorter[i])
                ELSE longer[i]]
    IN  new_from_coefficients(F, coefficients)

Polynomial_sub(F, p, q) ==
    LET longer == longer_of(p, q)
        shorter == shorter_of(p, q)
        coefficients ==
            [i \in 1..Len(longer) |->
                IF i <= Len(shorter) THEN sub(F, longer[i], shorter[i])
                ELSE longer[i]]
    IN  new_from_coefficients(F, coefficients)

zeros(F, n) == [i \in 1..n |-> generate_zero(F)]

RECURSIVE mul_loop_overwrite(_, _, _, _, _)
\* Mutant: each product overwrites its slot instead of being added to it.
mul_loop_overwrite(F, p, q, coefficients, n) ==
    IF n = Len(p) * Len(q) THEN coefficients
    ELSE LET i == n \div Len(q)
             j == n % Len(q)
         IN  mul_loop_overwrite(F, p, q,
                 [coefficients EXCEPT ![i + j + 1] = mul(F, p[i + 1], q[j + 1])],
                 n + 1)

RECURSIVE mul_loop(_, _, _, _, _)
\* The nested loops of mul, one (i, j) pair per unfolding, in the order the
\* code visits them: n = i * len(q) + j.
mul_loop(F, p, q, coefficients, n) ==
    IF n = Len(p) * Len(q) THEN coefficients
    ELSE LET i == n \div Len(q)
             j == n % Len(q)
         IN  mul_loop(F, p, q,
                 [coefficients EXCEPT
                     ![i + j + 1] = add(F, coefficients[i + j + 1],
                                        mul(F, p[i + 1], q[j + 1]))],
                 n + 1)

Polynomial_mul(F, p, q) ==
    new_from_coefficients(F,
        mul_loop(F, p, q, zeros(F, degree(p) + degree(q) + 1), 0))

\* ---------------------------------------------------------------- div_mod
\* Mutant: the degree test admits equal degrees (<= for <).
div_mod_early_le(F, p, q) ==
    IF degree(p) <= degree(q) THEN Some(Some(<<<<generate_zero(F)>>, p>>))
    ELSE IF degree(q) = 0 /\ is_zero(F, q[1]) THEN Some(None)
    ELSE None

\* Lines 115-118: the two early returns; <<>> here means "enter the loop".
div_mod_early(F, p, q) ==
    IF degree(p) < degree(q) THEN Some(Some(<<Polynomial_new(F), p>>))
    ELSE IF Polynomial_is_zero(F, q) THEN Some(None)
    ELSE None

\* Lines 120-121: the loop's initial locals.
div_mod_enter(F, p, q) ==
    [other |-> q, current |-> p, result |-> zeros(F, Len(p))]

\* Mutant: the while condition compares the length, not the degree, of the
\* remainder (the - 1 is missing).
div_mod_guard_len(d) == Len(d.current) >= degree(d.other)

\* Line 122: the while condition.
div_mod_guard(d) == Len(d.current) - 1 >= degree(d.other)

\* Line 123-125: the leading coefficients' quotient (an Option).
div_mod_lead(F, d) ==
    div(F, d.current[Len(d.current)], d.other[Len(d.other)])

\* Line 126: usize subtraction; a negative value is an overflow panic.
div_mod_offset(d) == Len(d.current) - Len(d.other)

\* Whether one pass of the loop body panics: the unwrap of an absent
\* quotient, the usize underflow of offset, or an index out of bounds.
div_mod_body_panics(F, d) ==
    \/ ~is_some(div_mod_lead(F, d))
    \/ div_mod_offset(d) < 0
    \/ div_mod_offset(d) >= Len(d.result)
    \/ \E i \in 0..(Len(d.other) - 1) : i + div_mod_offset(d) >= Len(d.current)

\* Lines 123-131: one pass of the loop body.
div_mod_body(F, d) ==
    LET q == unwrap(div_mod_lead(F, d))
        offset == div_mod_offset(d)
        result == [d.result EXCEPT ![offset + 1] = q]
        current ==
            [k \in 1..Len(d.current) |->
                IF k - 1 >= offset /\ k - 1 - offset < Len(d.other)
                THEN sub(F, d.current[k],
                         mul(F, d.other[k - offset], result[offset + 1]))
                ELSE d.current[k]]
    IN  [other |-> d.other,
         current |-> remove_trailing_zeros(F, current),
         result |-> result]

\* Line 133: the value returned when the loop is left.
div_mod_return(F, d) ==
    Some(<<new_from_coefficients(F, d.result),
           new_from_coefficients(F, d.current)>>)

RECURSIVE div_mod_loop(_, _)
div_mod_loop(F, d) ==
    IF div_mod_guard(d) THEN div_mod_loop(F, div_mod_body(F, d))
    ELSE div_mod_return(F, d)

\* div_mod as a function of its arguments (it has a value only where the
\* loop ends).
div_mod(F, p, q) ==
    IF is_some(div_mod_early(F, p, q)) THEN unwrap(div_mod_early(F, p, q))
    ELSE div_mod_loop(F, div_mod_enter(F, p, q))

\* ------------------------------------------------------------------- xgcd
\* Mutant: the degree test lets equal degrees through (< for <=).
xgcd_rejects_lt(F, poly, modulus) ==
    degree(modulus) < degree(poly) \/ (degree(poly) = 0 /\ is_zero(F, poly[1]))

\* Line 5: the guard of the (None, None) return.
xgcd_rejects(F, poly, modulus) ==
    degree(modulus) <= degree(poly) \/ Polynomial_is_zero(F, poly)

\* Lines 8-11: the loop's initial locals.
xgcd_enter(F, poly, modulus) ==
    [r_last |-> modulus,
     r_current |-> poly,
     t_last |-> Polynomial_new(F),
     t_current |-> new_from_coefficients(F, <<generate_zero(F)>>)]

\* Lines 15-19: the locals after a division that returned (q_current,
\* mod_current).
xgcd_update(F, x, qr) ==
    LET q_current == qr[1]
        mod_current == qr[2]
        t == Polynomial_sub(F, x.t_last, Polynomial_mul(F, q_current, x.t_current))
    IN  [r_last |-> x.r_current,
         r_current |-> mod_current,
         t_last |-> x.t_current,
         t_current |-> t]

\* Mutant: the non-coprime return hands out the current remainder (zero)
\* instead of the previous one.
xgcd_exit_current(F, x) ==
    IF Polynomial_is_one(F, x.r_current)
    THEN Some(<<Some(x.r_current), Some(x.t_current)>>)
    ELSE IF Polynomial_is_zero(F, x.r_current)
    THEN Some(<<Some(x.r_current), None>>)
    ELSE None

\* Lines 20-24: the value returned after an update, or None to loop again.
xgcd_exit(F, x) ==
    IF Polynomial_is_one(F, x.r_current)
    THEN Some(<<Some(x.r_current), Some(x.t_current)>>)
    ELSE IF Polynomial_is_zero(F, x.r_current)
    THEN Some(<<Some(x.r_last), None>>)
    ELSE None

RECURSIVE xgcd_loop(_, _)
xgcd_loop(F, x) ==
    LET r == div_mod(F, x.r_last, x.r_current)
    IN  IF is_some(r)
        THEN LET n == xgcd_update(F, x, unwrap(r))
             IN  IF is_some(xgcd_exit(F, n)) THEN unwrap(xgcd_exit(F, n))
                 ELSE xgcd_loop(F, n)
        ELSE <<None, None>>

xgcd(F, poly, modulus) ==
    IF xgcd_rejects(F, poly, modulus) THEN <<None, None>>
    ELSE xgcd_loop(F, xgcd_enter(F, poly, modulus))

invert(F, p, modulus) == xgcd(F, p, modulus)[2]

\* ----------------------------------------------------------------- caller
\* Coefficient vectors of length at most n, and the polynomials the
\* constructor makes of them.
Vectors(F, n) == UNION {[1..k -> Elements(F)] : k \in 0..n}

Polynomials(F, n) == {new_from_coefficients(F, v) : v \in Vectors(F, n)}

\* The caller holds two polynomials of at most MaxLen coefficients, not both
\* of the full length.
Fits(p, q) ==
    /\ Len(p) <= MaxLen
    /\ Len(q) <= MaxLen
    /\ (Len(p) < MaxLen \/ Len(q) < MaxLen)

Operands(F) ==
    {pq \in Polynomials(F, MaxLen) \X Polynomials(F, MaxLen) : Fits(pq[1], pq[2])}

\* The vectors that new_from_coefficients turns into p: p followed by zeros,
\* and for the zero polynomial also the empty vector.
VectorsOf(F, p) ==
    {p \o zeros(F, k) : k \in 0..(MaxLen - Len(p))}
        \cup (IF Polynomial_is_zero(F, p) THEN {<<>>} ELSE {})

\* The polynomials the last call returned.
Returned ==
    CASE op \in {"new", "new_from_coefficients", "add", "sub", "mul"} -> {ret}
      [] op = "div_mod" ->
            IF is_some(ret) THEN {unwrap(ret)[1], unwrap(ret)[2]} ELSE {}
      [] op = "xgcd" ->
            {unwrap(ret[i]) : i \in {j \in 1..2 : is_some(ret[j])}}
      [] op = "invert" -> IF is_some(ret) THEN {unwrap(ret)} ELSE {}
      [] OTHER -> {}

InitFor(F) ==
    /\ T = F
    /\ op = "none"
    /\ pc = "ready"
    /\ \E pq \in Operands(F) : self = pq[1] /\ other = pq[2]
    /\ input = <<>>
    /\ ret = None
    /\ dm = None
    /\ xg = None

Init == InitFor("GF4")

InitGF3 == InitFor("GF3")

\* A call of an operation that returns at once.
Returns(name, value) ==
    /\ pc = "ready"
    /\ op' = name
    /\ pc' = "ready"
    /\ ret' = value
    /\ dm' = None
    /\ xg' = None
    /\ UNCHANGED <<T, self, other>>

Call_new ==
    /\ Returns("new", Polynomial_new(T))
    /\ input' = <<>>

Call_new_from_coefficients(v) ==
    /\ Returns("new_from_coefficients", new_from_coefficients(T, v))
    /\ input' = v

Call_add ==
    /\ Returns("add", Polynomial_add(T, self, other))
    /\ input' = <<>>

Call_sub ==
    /\ Returns("sub", Polynomial_sub(T, self, other))
    /\ input' = <<>>

Call_mul ==
    /\ Returns("mul", Polynomial_mul(T, self, other))
    /\ input' = <<>>

\* a.div(b) on two field elements the caller holds: the leading coefficients
\* of self and of other (the pair div_mod divides on its first pass).
Call_div ==
    LET a == self[Len(self)]
        b == other[Len(other)]
    IN  /\ Returns("div", div(T, a, b))
        /\ input' = <<a, b>>

\* self.div_mod(other): the early returns, or the entry into the loop.
Call_div_mod ==
    /\ pc = "ready"
    /\ op' = "div_mod"
    /\ input' = <<>>
    /\ xg' = None
    /\ IF is_some(div_mod_early(T, self, other))
       THEN /\ ret' = unwrap(div_mod_early(T, self, other))
            /\ pc' = "ready"
            /\ dm' = None
       ELSE /\ ret' = None
            /\ pc' = "div_test"
            /\ dm' = Some(div_mod_enter(T, self, other))
    /\ UNCHANGED <<T, self, other>>

\* What the caller of xgcd gets: invert keeps the second output only.
xgcd_result(pair) == IF op = "invert" THEN pair[2] ELSE pair

\* xgcd(self, other) with poly = self and modulus = other, called directly
\* (name = "xgcd") or through self.invert(other) (name = "invert").
Call_xgcd(name) ==
    /\ pc = "ready"
    /\ op' = name
    /\ input' = <<>>
    /\ dm' = None
    /\ IF xgcd_rejects(T, self, other)
       THEN /\ ret' = (IF name = "invert" THEN None ELSE <<None, None>>)
            /\ pc' = "ready"
            /\ xg' = None
       ELSE /\ ret' = None
            /\ pc' = "xgcd_loop"
            /\ xg' = Some(xgcd_enter(T, self, other))
    /\ UNCHANGED <<T, self, other>>

\* Lines 14-27 of xgcd once r_last.div_mod(&r_current) has returned r.
xgcd_resume(r) ==
    IF is_some(r)
    THEN LET n == xgcd_update(T, unwrap(xg), unwrap(r))
         IN  /\ xg' = Some(n)
             /\ IF is_some(xgcd_exit(T, n))
                THEN /\ ret' = xgcd_result(unwrap(xgcd_exit(T, n)))
                     /\ pc' = "ready"
                ELSE /\ ret' = ret
                     /\ pc' = "xgcd_loop"
    ELSE /\ xg' = xg
         /\ ret' = xgcd_result(<<None, None>>)
         /\ pc' = "ready"

\* The head of the xgcd loop: the call r_last.div_mod(&r_current).
Xgcd_loop ==
    /\ pc = "xgcd_loop"
    /\ LET x == unwrap(xg)
           early == div_mod_early(T, x.r_last, x.r_current)
       IN  IF is_some(early)
           THEN /\ dm' = None
                /\ xgcd_resume(unwrap(early))
           ELSE /\ dm' = Some(div_mod_enter(T, x.r_last, x.r_current))
                /\ pc' = "div_test"
                /\ UNCHANGED <<ret, xg>>
    /\ UNCHANGED <<T, op, self, other, input>>

\* The while condition of div_mod: into the body, or out with the result,
\* back to the caller (the top level, or xgcd).
Div_test ==
    /\ pc = "div_test"
    /\ IF div_mod_guard(unwrap(dm))
       THEN /\ pc' = "div_body"
            /\ UNCHANGED <<ret, xg>>
       ELSE IF op = "div_mod"
       THEN /\ ret' = div_mod_return(T, unwrap(dm))
            /\ pc' = "ready"
            /\ xg' = xg
       ELSE xgcd_resume(div_mod_return(T, unwrap(dm)))
    /\ UNCHANGED <<T, op, self, other, input, dm>>

\* One pass of the body of div_mod's loop.
Div_body ==
    /\ pc = "div_body"
    /\ IF div_mod_body_panics(T, unwrap(dm))
       THEN /\ pc' = "panicked"
            /\ dm' = dm
       ELSE /\ pc' = "div_test"
            /\ dm' = Some(div_mod_body(T, unwrap(dm)))
    /\ UNCHANGED <<T, op, self, other, input, ret, xg>>

\* The caller keeps a returned polynomial as its first or second operand.
Keep(p, q) ==
    /\ pc = "ready"
    /\ Fits(p, q)
    /\ self' = p
    /\ other' = q
    /\ op' = "none"
    /\ input' = <<>>
    /\ ret' = None
    /\ dm' = None
    /\ xg' = None
    /\ UNCHANGED <<T, pc>>

Keep_self == pc = "ready" /\ \E r \in Returned : Keep(r, other)

Keep_other == pc = "ready" /\ \E r \in Returned : Keep(self, r)

Next ==
    \/ Call_new
    \/ \E v \in VectorsOf(T, self) : Call_new_from_coefficients(v)
    \/ Call_add
    \/ Call_sub
    \/ Call_mul
    \/ Call_div
    \/ Call_div_mod
    \/ Call_xgcd("xgcd")
    \/ Call_xgcd("invert")
    \/ Xgcd_loop
    \/ Div_test
    \/ Div_body
    \/ Keep_self
    \/ Keep_other

Spec == Init /\ [][Next]_vars

\* The same generic code instantiated with the integers modulo 3.
SpecGF3 == InitGF3 /\ [][Next]_vars

\* A call in progress keeps running: the program is sequential and nothing
\* preempts it.
Fairness == WF_vars(Xgcd_loop) /\ WF_vars(Div_test) /\ WF_vars(Div_body)

\* One call of a looping operation on the caller's operands, run to its end.
NextCall ==
    \/ op = "none" /\ Call_div_mod
    \/ op = "none" /\ Call_xgcd("xgcd")
    \/ op = "none" /\ Call_xgcd("invert")
    \/ Xgcd_loop
    \/ Div_test
    \/ Div_body

\* The caller's operands both shorter than the full length.
InitShort == Init /\ Len(self) < MaxLen /\ Len(other) < MaxLen

FairSpec == InitShort /\ [][NextCall]_vars /\ Fairness

\* A modulus one coefficient longer than the longest first operand, so that
\* Euclidean chains of several divisions run.
InitChain ==
    /\ T = "GF4"
    /\ op = "none"
    /\ pc = "ready"
    /\ self \in Polynomials("GF4", MaxLen)
    /\ other \in Polynomials("GF4", MaxLen + 1)
    /\ input = <<>>
    /\ ret = None
    /\ dm = None
    /\ xg = None

\* One call of xgcd(self, other), run to its end.
NextXgcd ==
    \/ op = "none" /\ Call_xgcd("xgcd")
    \/ Xgcd_loop
    \/ Div_test
    \/ Div_body

SpecChain == InitChain /\ [][NextXgcd]_vars

\* ----------------------------------------------------------------- claims
\* The inverse the last xgcd or invert call returned (an Option).
ReturnedInverse == IF op = "invert" THEN ret ELSE ret[2]

InverseReturned ==
    /\ pc = "ready"
    /\ op \in {"xgcd", "invert"}
    /\ is_some(ReturnedInverse)

\* C1: inversion round trip.  Whenever self.invert(other), or the second
\* output of xgcd(self, other), is a value inv, the remainder of
\* self.mul(inv).div_mod(other) is the one-polynomial.
C1_InversionRoundTrip ==
    InverseReturned =>
        LET inv == unwrap(ReturnedInverse)
            qr == div_mod(T, Polynomial_mul(T, self, inv), other)
        IN  is_some(qr) /\ Polynomial_is_one(T, unwrap(qr)[2])

\* Coefficient i (from 0) of p, a missing one read as zero.
coefficient_or_zero(F, p, i) ==
    IF is_some(get_coefficient(p, i)) THEN unwrap(get_coefficient(p, i))
    ELSE generate_zero(F)

DivModCalled == op = "div_mod" /\ ~Polynomial_is_zero(T, other)

DivModIdentity ==
    /\ op = "div_mod"
    /\ pc = "ready"
    /\ is_some(ret)
    /\ LET q == unwrap(ret)[1]
           r == unwrap(ret)[2]
       IN  /\ degree(r) < degree(other)
           /\ self = Polynomial_add(T, Polynomial_mul(T, q, other), r)

\* C2: division identity.  Every call self.div_mod(other) with a non-zero
\* divisor (constants included) returns a pair (q, r) with
\* deg(r) < deg(other) and self == q.mul(other).add(r).
C2_DivisionIdentity == DivModCalled ~> DivModIdentity

\* g divides p: p is g times some polynomial.
Divides(F, g, p) ==
    \E h \in Polynomials(F, (Len(p) - Len(g)) + 1) : Polynomial_mul(F, g, h) = p

\* p and m share no common factor of degree >= 1.
Coprime(F, p, m) ==
    \A g \in Polynomials(F, Len(p)) :
        degree(g) >= 1 => ~(Divides(F, g, p) /\ Divides(F, g, m))

InvertCalledCoprime ==
    /\ op = "invert"
    /\ ~Polynomial_is_zero(T, self)
    /\ degree(other) > degree(self)
    /\ Coprime(T, self, other)

\* C3: invert is absent only when no inverse exists.  For non-zero self and
\* deg(other) > deg(self) with self, other coprime, self.invert(other)
\* returns a value.
C3_InvertReturnsWhenCoprime ==
    InvertCalledCoprime ~> (op = "invert" /\ pc = "ready" /\ is_some(ret))

Canonical(F, p) ==
    /\ Len(p) >= 1
    /\ (p = <<generate_zero(F)>> \/ ~is_zero(F, p[Len(p)]))

\* Every Polynomial value alive in the state: the caller's operands, what
\* the last call returned, and the Polynomial locals of a running call.
LivePolynomials ==
    {self, other}
        \cup (IF pc = "ready" THEN Returned ELSE {})
        \cup (IF is_some(dm) THEN {unwrap(dm).other} ELSE {})
        \cup (IF is_some(xg)
              THEN {unwrap(xg).r_last, unwrap(xg).r_current,
                    unwrap(xg).t_last, unwrap(xg).t_current}
              ELSE {})

\* C4: canonical form.  After any sequence of new, new_from_coefficients,
\* add, sub, mul, div_mod, xgcd and invert every polynomial is non-empty and
\* is the single zero coefficient or has a non-zero last coefficient.
C4_CanonicalForm == \A p \in LivePolynomials : Canonical(T, p)

\* Calls whose result is shorter than what went in: a constructor that
\* stripped zeros, an addition that cancelled the leading terms, a division
\* whose remainder shrank.
C4_Witness ==
    /\ pc = "ready"
    /\ \/ op = "new_from_coefficients" /\ Len(input) > Len(ret) /\ Len(ret) > 1
       \/ op = "add" /\ Len(self) = Len(other) /\ Len(ret) < Len(self)
       \/ op = "div_mod" /\ is_some(ret) /\ degree(other) >= 1
            /\ Len(unwrap(ret)[2]) + 1 < Len(other)
            /\ Len(unwrap(ret)[1]) > 1

InDivMod == pc \in {"div_test", "div_body"}

\* C5: div_mod terminates.  For a non-zero divisor of any degree the loop
\* reaches its exit, and every pass of the body strictly shortens the
\* remainder.
C5_DivModTerminates ==
    /\ [][(pc = "div_body" /\ pc' = "div_test")
            => Len(unwrap(dm').current) < Len(unwrap(dm).current)]_vars
    /\ (InDivMod ~> ~InDivMod)

XgcdRunning == op \in {"xgcd", "invert"} /\ pc # "ready"

\* C6: xgcd terminates.  Once the preconditions hold the loop returns, and
\* every iteration strictly lowers the degree of r_current.
C6_XgcdTerminates ==
    /\ [][(is_some(xg) /\ is_some(xg') /\ xg' # xg /\ op' = op /\ pc # "ready")
            => degree(unwrap(xg').r_current) < degree(unwrap(xg).r_current)]_vars
    /\ (XgcdRunning ~> ~XgcdRunning)

\* C7: division by the zero polynomial.  self.div_mod(zero) is None for
\* every self, constants and zero included, never the pair (zero, self).
C7_DivModByZeroIsNone ==
    (op = "div_mod" /\ other = <<generate_zero(T)>>)
        => (pc = "ready" /\ ret = None)

C7_Witness ==
    /\ op = "div_mod"
    /\ other = <<generate_zero(T)>>
    /\ degree(self) = 0
    /\ pc = "ready"

\* C8: xgcd precondition.  If deg(other) <= deg(self) or self is zero,
\* xgcd(self, other) returns (None, None) with no division started, and
\* self.invert(other) returns None.
C8_XgcdPrecondition ==
    (/\ op \in {"xgcd", "invert"}
     /\ (Len(other) <= Len(self) \/ self = <<generate_zero(T)>>))
        => /\ pc = "ready"
           /\ ret = (IF op = "xgcd" THEN <<None, None>> ELSE None)
           /\ dm = None
           /\ xg = None

C8_Witness ==
    /\ op = "invert"
    /\ pc = "ready"
    /\ Len(other) = Len(self)
    /\ Len(self) > 1

\* C9: sub respects the operand order in any field.  Coefficient i of
\* self.sub(other) is field.sub(self[i], other[i]), missing coefficients
\* read as zero, and self.sub(other).add(other) == self.
C9_SubOperandOrder ==
    (pc = "ready" /\ op = "sub") =>
        /\ \A i \in 0..(MaxLen - 1) :
              coefficient_or_zero(T, ret, i) =
                  sub(T, coefficient_or_zero(T, self, i),
                         coefficient_or_zero(T, other, i))
        /\ Polynomial_add(T, ret, other) = self

RECURSIVE convolution(_, _, _, _, _)
\* The field sum of p[i] * q[k - i] over the i <= n for which both exist.
convolution(F, p, q, k, n) ==
    LET term == IF n <= degree(p) /\ k - n <= degree(q)
                THEN mul(F, p[n + 1], q[(k - n) + 1])
                ELSE generate_zero(F)
    IN  IF n = 0 THEN term ELSE add(F, convolution(F, p, q, k, n - 1), term)

\* C10: multiplication degree law.  For non-zero self, other the product
\* has degree deg(self) + deg(other) and coefficient k is the field sum of
\* self[i] * other[j] over i + j = k.
C10_MulDegreeLaw ==
    (/\ pc = "ready"
     /\ op = "mul"
     /\ ~Polynomial_is_zero(T, self)
     /\ ~Polynomial_is_zero(T, other))
        => /\ degree(ret) = degree(self) + degree(other)
           /\ \A k \in 0..(degree(self) + degree(other)) :
                 get_coefficient(ret, k) = Some(convolution(T, self, other, k, k))

C10_Witness ==
    /\ pc = "ready"
    /\ op = "mul"
    /\ degree(self) >= 1
    /\ degree(other) >= 1
    /\ \E k \in 1..Len(ret) : ret[k] = generate_zero(T)

\* C11: add is commutative whichever operand is longer: the canonical
\* coefficient sequence returned by self.add(other) is the one other.add(self)
\* returns.
C11_AddCommutative ==
    (pc = "ready" /\ op = "add")
        => /\ ret = Polynomial_add(T, other, self)
           /\ Canonical(T, ret)

\* An add whose second operand is the longer one, with a non-zero first.
C11_Witness ==
    /\ pc = "ready"
    /\ op = "add"
    /\ degree(self) < degree(other)
    /\ ~Polynomial_is_zero(T, self)

\* C12: GF4 division agrees with multiplication by the inverse: a.div(b) is
\* absent exactly when b is Zero, and otherwise it is the one element c of GF4
\* with c.mul(b) = a.
C12_DivIsMulByInverse ==
    (pc = "ready" /\ op = "div")
        => LET a == input[1]
               b == input[2]
           IN  /\ ~is_some(ret) <=> b = "Zero"
               /\ b # "Zero" =>
                     {c \in GF4 : GF4_mul(c, b) = a} = {unwrap(ret)}

\* One divided by Alpha: the quotient is the inverse AlphaPlusOne, which is
\* neither operand.
C12_Witness ==
    /\ pc = "ready"
    /\ op = "div"
    /\ input = <<"One", "Alpha">>
    /\ ret = Some("AlphaPlusOne")

\* xgcd(self, other) has returned (Some(g), None).
XgcdReturnedNonCoprime ==
    /\ pc = "ready"
    /\ op = "xgcd"
    /\ is_some(ret[1])
    /\ ~is_some(ret[2])

\* The remainder of p.div_mod(g) is the zero polynomial.
ZeroRemainder(F, p, g) ==
    LET r == div_mod(F, p, g)
    IN  is_some(r) /\ Polynomial_is_zero(F, unwrap(r)[2])

\* C13: whenever xgcd(poly, modulus) returns (Some(g), None), g is the
\* previous remainder of the Euclidean chain (the one before the zero
\* remainder), has degree at least 1, and divides both poly and modulus with
\* zero remainder under div_mod.
C13_XgcdNonCoprimeOutcome ==
    XgcdReturnedNonCoprime
        => LET g == unwrap(ret[1])
           IN  /\ is_some(xg)
               /\ Polynomial_is_zero(T, unwrap(xg).r_current)
               /\ g = unwrap(xg).r_last
               /\ degree(g) >= 1
               /\ IF degree(g) >= 1
                  THEN ZeroRemainder(T, self, g) /\ ZeroRemainder(T, other, g)
                  ELSE FALSE

\* A non-coprime return where g is a proper divisor of poly, found after
\* more than one division.
C13_Witness ==
    /\ XgcdReturnedNonCoprime
    /\ degree(unwrap(ret[1])) >= 1
    /\ degree(unwrap(ret[1])) < degree(self)

\* C14: div_mod never aborts.  No call ends in a panic, and at every entry
\* into the body of the elimination loop the quotient of the leading
\* coefficients is defined, the offset is a valid index of the quotient
\* buffer, and every i + offset written is a valid index of the remainder
\* buffer.
C14_DivModNeverAborts ==
    /\ pc # "panicked"
    /\ pc = "div_body"
          => LET d == unwrap(dm)
                 lead == d.current[Len(d.current)]
                 divisor == d.other[Len(d.other)]
                 offset == Len(d.current) - Len(d.other)
             IN  /\ ~is_zero(T, divisor)
                 /\ is_some(div(T, lead, divisor))
                 /\ offset >= 0
                 /\ offset < Len(d.result)
                 /\ \A i \in 0..(Len(d.other) - 1) :
                       i + offset < Len(d.current)

\* A second pass of the loop body in a top-level div_mod, the remainder
\* already shortened to the divisor's length (offset 0, last index written).
C14_Witness ==
    /\ pc = "div_body"
    /\ op = "div_mod"
    /\ Len(other) >= 2
    /\ Len(unwrap(dm).current) < Len(self)
    /\ Len(unwrap(dm).current) = Len(other)

====
